---- MODULE Spec2Model ----
(***************************************************************************)
(* Model of the DeepLearning.AI course downloader: URL parsing, outline    *)
(* resolution and ordering, the per-lesson download loop and the CSV       *)
(* export loop.  Both implementations of the repository are modelled: the  *)
(* package (src/dlai_downloader) and the single-file scripts               *)
(* (src/download_course.py, src/scripts/export_csv.py); the variable impl  *)
(* says which one runs.                                                    *)
(*                                                                         *)
(* Text is a sequence of one-character strings.  External collaborators    *)
(* (the metadata API, yt-dlp, the HEAD request) are nondeterministic       *)
(* inputs.  A user interrupt is modelled in the download loop only; a      *)
(* failure of the file system while writing the manifest is not modelled.  *)
(***************************************************************************)
EXTENDS Integers, Sequences, FiniteSets, TLC

VARIABLES impl, cmd, pc, at, url, slug, requested, resp, posVideo,
          outline, records, err, exitCode, dryRun, verify,
          failures, invoked, outcomes, interrupted,
          processed, resolved, lastHead, rows, manifest, viewUrls

vars == <<impl, cmd, pc, at, url, slug, requested, resp, posVideo,
          outline, records, err, exitCode, dryRun, verify,
          failures, invoked, outcomes, interrupted,
          processed, resolved, lastHead, rows, manifest, viewUrls>>

-----------------------------------------------------------------------------
(* Bounds of the model *)

\* longest listing (flattened content items) of an API response
MaxListing == 2
\* largest index value a raw record carries
MaxIndex == 2
\* largest exit code of the external tool
MaxCode == 2
\* longest URL path, in tokens
MaxPathLen == 4
MaxNameLen == 3

-----------------------------------------------------------------------------
(* Text helpers *)

COURSE_HOST == "learn.deeplearning.ai"

Digits == {"0", "1", "2", "3", "4", "5", "6", "7", "8", "9"}
LowerLetters == {"a", "b", "e", "l", "n", "o", "s"}
Whitespace == {" "}

DigitChar(d) ==
    CASE d = 0 -> "0" [] d = 1 -> "1" [] d = 2 -> "2" [] d = 3 -> "3"
      [] d = 4 -> "4" [] d = 5 -> "5" [] d = 6 -> "6" [] d = 7 -> "7"
      [] d = 8 -> "8" [] d = 9 -> "9"

RECURSIVE NatToStr(_)
NatToStr(n) == IF n < 10 THEN <<DigitChar(n)>>
               ELSE NatToStr(n \div 10) \o <<DigitChar(n % 10)>>

\* str(n) / f"{n}"
IntToStr(n) == IF n < 0 THEN <<"-">> \o NatToStr(0 - n) ELSE NatToStr(n)

\* f"{n:02d}": sign-aware zero padding to width 2
Format02d(n) ==
    LET s == IntToStr(n)
    IN  IF Len(s) >= 2 THEN s ELSE <<"0">> \o s

LowerChar(c) ==
    CASE c = "A" -> "a" [] c = "B" -> "b" [] c = "L" -> "l" [] c = "V" -> "v" [] OTHER -> c

\* str.lower()
Lower(s) == [j \in 1..Len(s) |-> LowerChar(s[j])]

RECURSIVE StripLeft(_, _)
StripLeft(s, cs) == IF s # <<>> /\ Head(s) \in cs THEN StripLeft(Tail(s), cs) ELSE s

RECURSIVE StripRight(_, _)
StripRight(s, cs) ==
    IF s # <<>> /\ s[Len(s)] \in cs THEN StripRight(SubSeq(s, 1, Len(s) - 1), cs) ELSE s

\* str.strip() / str.strip(chars)
Strip(s, cs) == StripRight(StripLeft(s, cs), cs)

\* re.sub(r"[^a-z0-9]+", "-", s): every maximal run of other characters becomes one "-"
RECURSIVE SubNonAlnumRuns(_, _)
SubNonAlnumRuns(s, inRun) ==
    IF s = <<>> THEN <<>>
    ELSE IF Head(s) \in LowerLetters \cup Digits
         THEN <<Head(s)>> \o SubNonAlnumRuns(Tail(s), FALSE)
         ELSE (IF inRun THEN <<>> ELSE <<"-">>) \o SubNonAlnumRuns(Tail(s), TRUE)

\* re.sub(r"-+", "-", s)
RECURSIVE CollapseDashes(_, _)
CollapseDashes(s, inRun) ==
    IF s = <<>> THEN <<>>
    ELSE IF Head(s) = "-"
         THEN (IF inRun THEN <<>> ELSE <<"-">>) \o CollapseDashes(Tail(s), TRUE)
         ELSE <<Head(s)>> \o CollapseDashes(Tail(s), FALSE)

slugify(text) ==
    LET t1 == Lower(Strip(text, Whitespace))
        t2 == SubNonAlnumRuns(t1, FALSE)
        t3 == Strip(CollapseDashes(t2, FALSE), {"-"})
    IN  IF t3 = <<>> THEN <<"l", "e", "s", "s", "o", "n">> ELSE t3

\* str.replace(old, new) for one-character old and new
Replace(s, old, new) == [j \in 1..Len(s) |-> IF s[j] = old THEN new ELSE s[j]]

\* urllib.parse.quote(s): unreserved characters and "/" are kept, " " becomes %20,
\* "?" becomes %3F
RECURSIVE quote(_)
quote(s) ==
    IF s = <<>> THEN <<>>
    ELSE (CASE Head(s) = " " -> <<"%", "2", "0">>
            [] Head(s) = "?" -> <<"%", "3", "F">>
            [] OTHER -> <<Head(s)>>) \o quote(Tail(s))

\* f"Lesson {idx}"
DefaultName(idx) == <<"L", "e", "s", "s", "o", "n", " ">> \o IntToStr(idx)

-----------------------------------------------------------------------------
(* Stable sort, as list.sort / sorted: a stable sort by an integer key *)

RECURSIVE InsertByKey(_, _)
InsertByKey(sorted, e) ==
    IF sorted = <<>> THEN <<e>>
    ELSE IF Head(sorted).k <= e.k THEN <<Head(sorted)>> \o InsertByKey(Tail(sorted), e)
         ELSE <<e>> \o sorted

RECURSIVE SortDecorated(_)
SortDecorated(s) ==
    IF s = <<>> THEN <<>>
    ELSE InsertByKey(SortDecorated(SubSeq(s, 1, Len(s) - 1)), s[Len(s)])

\* s sorted stably by keys, keys[j] being the key of s[j]
StableSort(s, keys) ==
    LET d == SortDecorated([j \in 1..Len(s) |-> [k |-> keys[j], v |-> s[j]]])
    IN  [j \in 1..Len(d) |-> d[j].v]

-----------------------------------------------------------------------------
(* The metadata API response: result.data.json of course.getCourseBySlug *)

Keys == {<<"k", "1">>, <<"k", "2">>}
\* lessons_map.items() iterates in the order of the JSON object
KeyOrder == << <<"k", "1">>, <<"k", "2">> >>

TypeTexts == {<<"v", "i", "d", "e", "o">>, <<"V", "i", "d", "e", "o">>, <<"q", "u", "i", "z">>}
RecNames == {<<>>, <<"a">>}
RecSlugs == {<<>>}

\* the "index" field of a raw record: absent, null, "" or 0 (falsy), an integer
\* (a JSON number or a numeric string), or a string int() cannot parse
Falsy == [kind |-> "falsy", val |-> 0]
BadIndex == [kind |-> "bad", val |-> 0]
IndexFields == {Falsy, BadIndex} \cup {[kind |-> "int", val |-> v] : v \in ((0 - 1)..MaxIndex) \ {0}}

RawLessonRecords == [type : TypeTexts, index : IndexFields, name : RecNames, slug : RecSlugs]
\* lessons_map.get(k) of a key the mapping does not hold (None), or a null / empty record
Null == [type |-> <<>>, index |-> Falsy, name |-> <<>>, slug |-> <<>>]

\* a content item of a listing block
ListingItems == [type : {"lesson"}, key : Keys \cup {<<>>}] \cup [type : {"chapter"}, key : {<<"k", "1">>}]

RECURSIVE SeqsUpTo(_, _)
SeqsUpTo(S, n) ==
    IF n = 0 THEN {<<>>}
    ELSE LET shorter == SeqsUpTo(S, n - 1)
         IN  shorter \cup {Append(q, x) : q \in {t \in shorter : Len(t) = n - 1}, x \in S}

Responses == [lessons : [Keys -> RawLessonRecords \cup {Null}],
              listing : SeqsUpTo(ListingItems, MaxListing)]
NoResp == [lessons |-> [k \in Keys |-> Null], listing |-> <<>>]

\* int(x or 0) raises ValueError
IndexRaises(f) == f.kind = "bad"
\* int(x or 0), where it returns
ParseIndex(f) == IF f.kind = "int" THEN f.val ELSE 0

is_video(obj) == Lower(obj.type) = <<"v", "i", "d", "e", "o">>

\* ordered_keys of fetch_course_data: the keys of the listing's lesson items
RECURSIVE ordered_keys_of(_)
ordered_keys_of(listing) ==
    IF listing = <<>> THEN <<>>
    ELSE (IF Head(listing).type = "lesson" /\ Head(listing).key # <<>>
          THEN <<Head(listing).key>> ELSE <<>>) \o ordered_keys_of(Tail(listing))

fetch_course_data(r) == [lessons_map |-> r.lessons, ordered_keys |-> ordered_keys_of(r.listing)]

\* lessons_map.items(): the (key, record) pairs the mapping holds
items(lessons_map) ==
    LET all == [j \in 1..Len(KeyOrder) |-> [key |-> KeyOrder[j], obj |-> lessons_map[KeyOrder[j]]]]
    IN  SelectSeq(all, LAMBDA kv : kv.obj # Null)

\* sorted(lessons_map.items(), key=lambda kv: int((kv[1] or {}).get("index") or 0))
sorted_items(lessons_map) ==
    LET its == items(lessons_map)
    IN  StableSort(its, [j \in 1..Len(its) |-> ParseIndex(its[j].obj.index)])
sorted_items_raises(lessons_map) ==
    \E j \in 1..Len(items(lessons_map)) : IndexRaises(items(lessons_map)[j].obj.index)

CourseUrl(course_slug, lesson_slug, name_slug) ==
    [host |-> COURSE_HOST, course |-> course_slug, lesson |-> lesson_slug, name |-> name_slug]

Lesson(index, title, lessonUrl) == [index |-> index, title |-> title, url |-> lessonUrl]

\* add_lesson of fetch_course_outline_via_api: lessons after the call
add_lesson(course_slug, key, lesson_obj, lessons) ==
    IF lesson_obj = Null THEN lessons
    ELSE IF ~is_video(lesson_obj) THEN lessons
    ELSE LET idx == ParseIndex(lesson_obj.index)
             name == IF lesson_obj.name # <<>> THEN lesson_obj.name ELSE DefaultName(idx)
             lesson_slug == IF lesson_obj.slug # <<>> THEN lesson_obj.slug ELSE key
         IN  Append(lessons, Lesson(idx, name, CourseUrl(course_slug, lesson_slug, slugify(name))))
add_lesson_raises(lesson_obj) ==
    lesson_obj # Null /\ is_video(lesson_obj) /\ IndexRaises(lesson_obj.index)

RECURSIVE add_all(_, _, _)
add_all(course_slug, kvs, lessons) ==
    IF kvs = <<>> THEN lessons
    ELSE add_all(course_slug, Tail(kvs), add_lesson(course_slug, Head(kvs).key, Head(kvs).obj, lessons))

\* the (key, record) pairs the outline functions walk: the listing's keys looked up
\* in the mapping, or, without a listing, the mapping's items sorted by index
candidates(data) ==
    IF data.ordered_keys # <<>>
    THEN [j \in 1..Len(data.ordered_keys) |->
            [key |-> data.ordered_keys[j], obj |-> data.lessons_map[data.ordered_keys[j]]]]
    ELSE sorted_items(data.lessons_map)

candidates_raise(data) == data.ordered_keys = <<>> /\ sorted_items_raises(data.lessons_map)

\* "l.index >= 0" in place of "l.index > 0"
KeepLesson_nonnegative(l) == l.index >= 0

\* lessons = [l for l in lessons if l.index > 0]
KeepLesson(l) == l.index > 0

\* the sort left out
SortLessons_omitted(lessons) == lessons

\* lessons.sort(key=lambda l: l.index)
SortLessons(lessons) == StableSort(lessons, [j \in 1..Len(lessons) |-> lessons[j].index])

\* fetch_course_outline_via_api, given the API's answer r: the error raised, or the outline
fetch_course_outline_via_api(course_slug, r) ==
    LET data == fetch_course_data(r)
    IN  IF candidates_raise(data) THEN [err |-> "ValueError", lessons |-> <<>>]
        ELSE LET kvs == candidates(data)
             IN  IF \E j \in 1..Len(kvs) : add_lesson_raises(kvs[j].obj)
                 THEN [err |-> "ValueError", lessons |-> <<>>]
                 ELSE LET lessons == SortLessons(SelectSeq(add_all(course_slug, kvs, <<>>), KeepLesson))
                      IN  IF lessons = <<>> THEN [err |-> "RuntimeError", lessons |-> <<>>]
                          ELSE [err |-> "none", lessons |-> lessons]

\* get_outline_for_csv (package) / get_outline (script), given the API's answer r
get_outline_for_csv(r) ==
    LET data == fetch_course_data(r)
    IN  IF candidates_raise(data) THEN [err |-> "ValueError", lessons |-> <<>>]
        ELSE LET kvs == candidates(data)
                 objs == [j \in 1..Len(kvs) |-> kvs[j].obj]
             IN  [err |-> "none",
                  lessons |-> SelectSeq(objs, LAMBDA obj : obj # Null /\ is_video(obj))]

\* the API response holds a video record with a strictly positive index
HasPositiveVideo(r) ==
    \E k \in Keys : /\ r.lessons[k] # Null
                    /\ is_video(r.lessons[k])
                    /\ r.lessons[k].index.kind = "int"
                    /\ r.lessons[k].index.val > 0

-----------------------------------------------------------------------------
(* URL parsing.  An input URL is what urlparse makes of it: its netloc and its   *)
(* path, the path a sequence of tokens, "/" or a word without a slash.           *)

PathTokens == {"/", "courses", "c1"}
NetLocs == {COURSE_HOST, "evil.example", ""}

\* urlparse: with a netloc the path is empty or starts with "/"
Urls == {u \in [netloc : NetLocs, path : SeqsUpTo(PathTokens, MaxPathLen)] :
            u.netloc # "" => (u.path = <<>> \/ Head(u.path) = "/")}
NoUrl == [netloc |-> "", path |-> <<>>]
NoSlug == <<>>

\* path.split('/'): the runs of tokens between the slashes, empty runs included
RECURSIVE Split(_, _)
Split(path, cur) ==
    IF path = <<>> THEN <<cur>>
    ELSE IF Head(path) = "/" THEN <<cur>> \o Split(Tail(path), <<>>)
         ELSE Split(Tail(path), Append(cur, Head(path)))

\* parts = [p for p in parsed.path.split('/') if p]
PathParts(u) == SelectSeq(Split(u.path, <<>>), LAMBDA seg : seg # <<>>)

HostAccepted(u) == u.netloc = COURSE_HOST

\* get_course_base_url: the error raised, or the slug
get_course_base_url(u) ==
    LET parts == PathParts(u)
    IN  IF ~HostAccepted(u) THEN [err |-> "ValueError", course_slug |-> NoSlug]
        ELSE IF Len(parts) < 2 \/ parts[1] # <<"courses">>
             THEN [err |-> "ValueError", course_slug |-> NoSlug]
             ELSE [err |-> "none", course_slug |-> parts[2]]

\* get_course_slug: the error raised, or the slug
get_course_slug(u) ==
    LET parts == PathParts(u)
    IN  IF Len(parts) < 2 \/ parts[1] # <<"courses">>
        THEN [err |-> "ValueError", course_slug |-> NoSlug]
        ELSE [err |-> "none", course_slug |-> parts[2]]

-----------------------------------------------------------------------------
(* The external tool and the HEAD request *)

\* what subprocess.run of the download does: the tool exits with a code (negative:
\* killed by a signal), the call raises (the tool cannot be started), or the user
\* interrupts it
ToolOutcomes == [kind : {"exit"}, code : (0 - 1)..MaxCode]
                  \cup [kind : {"raise", "interrupt"}, code : {0}]

\* run_yt_dlp_download with "except Exception" re-raising instead of returning 1
run_yt_dlp_download_reraise(lesson, o) ==
    CASE o.kind = "exit" -> [raised |-> "none", code |-> o.code]
      [] o.kind = "interrupt" -> [raised |-> "KeyboardInterrupt", code |-> 0]
      [] o.kind = "raise" -> [raised |-> "Exception", code |-> 0]

\* run_yt_dlp_download with the KeyboardInterrupt caught like any other exception
run_yt_dlp_download_swallow(lesson, o) ==
    CASE o.kind = "exit" -> [raised |-> "none", code |-> o.code]
      [] o.kind = "interrupt" -> [raised |-> "none", code |-> 1]
      [] o.kind = "raise" -> [raised |-> "none", code |-> 1]

\* run_yt_dlp_download: what it raises, or the code it returns
run_yt_dlp_download(lesson, o) ==
    CASE o.kind = "exit" -> [raised |-> "none", code |-> o.code]
      [] o.kind = "interrupt" -> [raised |-> "KeyboardInterrupt", code |-> 0]
      [] o.kind = "raise" -> [raised |-> "none", code |-> 1]

\* "if code > 0" in place of "if code != 0"
CountsAsFailure_positive(code) == code > 0

\* if code != 0: failures += 1
CountsAsFailure(code) == code # 0

\* what the resolve-only run of the tool does
ResolveOutcomes == {"ok", "nonzero", "no_output", "timeout", "oserror"}

\* the package runs the tool with timeout=60, the script without a timeout
ResolveOutcomesOf(im) == IF im = "package" THEN ResolveOutcomes ELSE ResolveOutcomes \ {"timeout"}

\* the first non-blank line the tool prints for a viewable URL
DirectUrl(view_url) == [direct |-> view_url]

\* extract_direct_url: what it raises, or the direct URL.  The script passes no
\* timeout to subprocess.run and does not wrap other exceptions.
extract_direct_url(im, view_url, o) ==
    CASE o = "ok" -> [raised |-> "none", direct_url |-> DirectUrl(view_url)]
      [] o \in {"nonzero", "no_output"} -> [raised |-> "RuntimeError", direct_url |-> DirectUrl(view_url)]
      [] o = "timeout" -> [raised |-> "RuntimeError", direct_url |-> DirectUrl(view_url)]
      [] o = "oserror" -> [raised |-> IF im = "package" THEN "RuntimeError" ELSE "Exception",
                           direct_url |-> DirectUrl(view_url)]

\* what requests.head(...) followed by raise_for_status() does
HeadOutcomes == {"ok", "HTTPError", "ConnectionError", "Timeout", "OtherError"}
RequestExceptions == {"HTTPError", "ConnectionError", "Timeout"}

\* the exception that leaves the verification block: the package catches
\* requests.exceptions.RequestException, the script every Exception
VerifyEscapes(im, h) ==
    IF im = "package" THEN h \notin RequestExceptions \cup {"ok"} ELSE FALSE

\* build_lesson_url: (idx, name, url)
build_lesson_url(course_slug, lesson_obj) ==
    LET idx == ParseIndex(lesson_obj.index)
        name == IF lesson_obj.name # <<>> THEN lesson_obj.name ELSE DefaultName(idx)
        lesson_slug == IF lesson_obj.slug # <<>> THEN lesson_obj.slug ELSE IntToStr(idx)
        name_slug == quote(Replace(Replace(Lower(name), " ", "-"), "/", "-"))
    IN  [idx |-> idx, name |-> name, url |-> CourseUrl(course_slug, lesson_slug, name_slug)]

\* f"{idx:02d} - {name}"
RowTitle(idx, name) == Format02d(idx) \o <<" ", "-", " ">> \o name

\* sorted(lessons, key=lambda o: int(o.get("index") or 0))
sorted_lessons(lessons) == StableSort(lessons, [j \in 1..Len(lessons) |-> ParseIndex(lessons[j].index)])
sorted_lessons_raises(lessons) == \E j \in 1..Len(lessons) : IndexRaises(lessons[j].index)

Header == <<"url", "title", "path">>
ExecPath == "cwd"
NoFile == [header |-> <<>>, lines |-> <<>>]

\* csv.DictWriter: writeheader(), then one writerow per row
WriteCsv(rs) == [header |-> Header,
                 lines |-> [j \in 1..Len(rs) |-> [url |-> rs[j].url, title |-> rs[j].title, path |-> ExecPath]]]

-----------------------------------------------------------------------------
(* The commands *)

Impls == {"package", "script"}
Cmds == {"download", "export"}

CanonicalUrl == [netloc |-> COURSE_HOST, path |-> <<"/", "courses", "/", "c1">>]
MainUrls == {CanonicalUrl, [netloc |-> COURSE_HOST, path |-> <<"/">>]}

\* an exception that reaches the top of the command: the package logs it and calls
\* sys.exit(1); in the scripts it is unhandled, and the interpreter exits with 1
Fail(e) == /\ pc' = "exit"
           /\ at' = pc
           /\ err' = e
           /\ exitCode' = 1

\* a KeyboardInterrupt that leaves the download loop: the package calls sys.exit(1);
\* in the script it is unhandled, and the interpreter ends by SIGINT (status 130)
InterruptExit(im) == IF im = "package" THEN 1 ELSE 130

loopVars == <<failures, invoked, outcomes, interrupted>>
exportVars == <<processed, resolved, lastHead, rows, manifest>>
\* what no step of a command changes: the arguments, the API's answer where it is
\* an input, the viewable URLs the two builders gave where they are compared
argVars == <<impl, cmd, dryRun, verify, url, resp, viewUrls>>

\* no pair of viewable URLs built
NoViewUrls == [key |-> <<>>, obj |-> Null, inline |-> CourseUrl(<<>>, <<>>, <<>>),
               export |-> CourseUrl(<<>>, <<>>, <<>>)]

\* at: the position a finished run left (pc = "exit"); posVideo: whether the API's
\* answer held a video record with a strictly positive index
\* the state every specification starts from, but for its inputs
Fresh == /\ at = "none"
         /\ requested = FALSE
         /\ posVideo = "unknown"
         /\ outline = <<>>
         /\ records = <<>>
         /\ err = "none"
         /\ exitCode = 0
         /\ failures = 0
         /\ invoked = <<>>
         /\ outcomes = <<>>
         /\ interrupted = FALSE
         /\ processed = 0
         /\ resolved = <<>>
         /\ lastHead = "none"
         /\ rows = <<>>
         /\ manifest = NoFile
         /\ viewUrls = NoViewUrls

\* the command line: --dry-run belongs to the download command, --verify to the
\* export command
Args == /\ impl \in Impls
        /\ cmd \in Cmds
        /\ dryRun \in (IF cmd = "download" THEN BOOLEAN ELSE {FALSE})
        /\ verify \in (IF cmd = "export" THEN BOOLEAN ELSE {FALSE})

Init == /\ Args
        /\ pc = "start"
        /\ url \in MainUrls
        /\ slug = NoSlug
        /\ resp = NoResp
        /\ Fresh

\* get_course_base_url(args.url) of the download command, get_course_slug(args.url)
\* of the export command
ParseUrl ==
    /\ pc = "start"
    /\ LET res == IF cmd = "download" THEN get_course_base_url(url) ELSE get_course_slug(url)
       IN  IF res.err # "none"
           THEN Fail(res.err) /\ slug' = slug
           ELSE /\ pc' = "parsed"
                /\ slug' = res.course_slug
                /\ UNCHANGED <<err, exitCode, at>>
    /\ UNCHANGED <<argVars, requested, posVideo, outline, records, loopVars, exportVars>>

\* the metadata request fails: a non-2xx status, a connection failure, a timeout,
\* or a body that is no JSON
FetchTransportError ==
    /\ pc = "parsed"
    /\ requested' = TRUE
    /\ Fail("RuntimeError")
    /\ UNCHANGED <<argVars, slug, posVideo, outline, records, loopVars, exportVars>>

\* fetch_course_outline_via_api(course_slug), the API answering r
DoFetchDownload(r) ==
    /\ pc = "parsed"
    /\ cmd = "download"
    /\ requested' = TRUE
    /\ posVideo' = IF HasPositiveVideo(r) THEN "yes" ELSE "no"
    /\ LET res == fetch_course_outline_via_api(slug, r)
       IN  IF res.err # "none"
           THEN Fail(res.err) /\ outline' = outline
           ELSE /\ pc' = "fetched"
                /\ outline' = res.lessons
                /\ UNCHANGED <<err, exitCode, at>>
    /\ UNCHANGED <<argVars, slug, records, loopVars, exportVars>>

\* get_outline_for_csv(course_slug), the API answering r
DoFetchExport(r) ==
    /\ pc = "parsed"
    /\ cmd = "export"
    /\ requested' = TRUE
    /\ posVideo' = IF HasPositiveVideo(r) THEN "yes" ELSE "no"
    /\ LET res == get_outline_for_csv(r)
       IN  IF res.err # "none"
           THEN Fail(res.err) /\ records' = records
           ELSE /\ pc' = "fetched"
                /\ records' = res.lessons
                /\ UNCHANGED <<err, exitCode, at>>
    /\ UNCHANGED <<argVars, slug, outline, loopVars, exportVars>>

FetchOutlineDownload ==
    /\ pc = "parsed"
    /\ cmd = "download"
    /\ \E r \in Responses : DoFetchDownload(r)

FetchOutlineExport ==
    /\ pc = "parsed"
    /\ cmd = "export"
    /\ \E r \in Responses : DoFetchExport(r)

\* if args.dry_run: return
DryRunReturn ==
    /\ pc = "fetched"
    /\ cmd = "download"
    /\ dryRun
    /\ pc' = "exit"
    /\ at' = pc
    /\ UNCHANGED <<argVars, slug, requested, posVideo, outline, records, err, exitCode,
                   loopVars, exportVars>>

\* failures = 0, and the loop begins
EnterDownloadLoop ==
    /\ pc = "fetched"
    /\ cmd = "download"
    /\ ~dryRun
    /\ pc' = "loop"
    /\ at' = at
    /\ failures' = 0
    /\ UNCHANGED <<argVars, slug, requested, posVideo, outline, records, err, exitCode,
                   invoked, outcomes, interrupted, exportVars>>

\* one iteration of "for lesson in lessons": the tool runs on the next lesson
DownloadLesson ==
    /\ pc = "loop"
    /\ Len(invoked) < Len(outline)
    /\ \E o \in ToolOutcomes :
         LET lesson == outline[Len(invoked) + 1]
             res == run_yt_dlp_download(lesson, o)
         IN  /\ invoked' = Append(invoked, lesson)
             /\ outcomes' = Append(outcomes, o)
             /\ CASE res.raised = "KeyboardInterrupt" ->
                       /\ interrupted' = TRUE
                       /\ pc' = "exit"
                       /\ at' = pc
                       /\ err' = "KeyboardInterrupt"
                       /\ exitCode' = InterruptExit(impl)
                       /\ failures' = failures
                  [] res.raised = "Exception" /\ impl = "package" ->
                       /\ failures' = failures + 1
                       /\ UNCHANGED <<interrupted, pc, at, err, exitCode>>
                  [] res.raised = "Exception" /\ impl = "script" ->
                       /\ Fail("Exception")
                       /\ UNCHANGED <<interrupted, failures>>
                  [] OTHER ->
                       /\ failures' = IF CountsAsFailure(res.code) THEN failures + 1 ELSE failures
                       /\ UNCHANGED <<interrupted, pc, at, err, exitCode>>
    /\ UNCHANGED <<argVars, slug, requested, posVideo, outline, records, exportVars>>

\* after the loop: if failures: sys.exit(1)
FinishDownload ==
    /\ pc = "loop"
    /\ Len(invoked) = Len(outline)
    /\ pc' = "exit"
    /\ at' = pc
    /\ exitCode' = IF failures # 0 THEN 1 ELSE 0
    /\ UNCHANGED <<argVars, slug, requested, posVideo, outline, records, err,
                   loopVars, exportVars>>

\* for obj in sorted(lessons, key=...): the sort, before the first iteration
EnterExportLoop ==
    /\ pc = "fetched"
    /\ cmd = "export"
    /\ IF sorted_lessons_raises(records)
       THEN Fail("ValueError") /\ records' = records
       ELSE /\ pc' = "xloop"
            /\ records' = sorted_lessons(records)
            /\ UNCHANGED <<err, exitCode, at>>
    /\ UNCHANGED <<argVars, slug, requested, posVideo, outline, loopVars, exportVars>>

\* one iteration of the export loop: build the viewable URL, resolve it, verify it
\* if asked to, append the row
ExportLesson ==
    /\ pc = "xloop"
    /\ processed < Len(records)
    /\ processed' = processed + 1
    /\ \E o \in ResolveOutcomesOf(impl), h \in (IF verify THEN HeadOutcomes ELSE {"none"}) :
         LET built == build_lesson_url(slug, records[processed + 1])
             res == extract_direct_url(impl, built.url, o)
         IN  IF res.raised # "none"
             THEN /\ resolved' = Append(resolved, FALSE)
                  /\ UNCHANGED <<rows, lastHead>>
             ELSE /\ resolved' = Append(resolved, TRUE)
                  /\ lastHead' = h
                  /\ rows' = IF verify /\ VerifyEscapes(impl, h) THEN rows
                             ELSE Append(rows, [url |-> res.direct_url,
                                                title |-> RowTitle(built.idx, built.name)])
    /\ UNCHANGED <<argVars, slug, requested, posVideo, outline, records, err, exitCode,
                   pc, at, loopVars, manifest>>

\* what the file system does to open(args.out, "w") and to the writes under it
WriteOutcomes == {"ok", "open_error", "write_error"}

export_exit_status_strict(ioerror, success_count, processed_count) ==
    IF ioerror \/ success_count < processed_count THEN 1 ELSE 0

\* the status an export run ends with once its loop is over: sys.exit(1) under
\* "except IOError" (an unhandled OSError in the script), else the return of main
export_exit_status(ioerror, success_count, processed_count) ==
    IF ioerror THEN 1 ELSE 0

\* after the loop: the CSV is written, header first; an IOError of the open leaves
\* no file, an IOError of a later write leaves the header and some of the rows
WriteManifest ==
    /\ pc = "xloop"
    /\ processed = Len(records)
    /\ \E w \in WriteOutcomes :
         /\ \/ w = "ok" /\ manifest' = WriteCsv(rows)
            \/ w = "open_error" /\ manifest' = NoFile
            \/ w = "write_error" /\ \E n \in 0..Len(rows) : manifest' = WriteCsv(SubSeq(rows, 1, n))
         /\ err' = IF w = "ok" THEN err ELSE "IOError"
         /\ exitCode' = export_exit_status(w # "ok", Len(rows), processed)
    /\ pc' = "exit"
    /\ at' = pc
    /\ UNCHANGED <<argVars, slug, requested, posVideo, outline, records,
                   loopVars, processed, resolved, lastHead, rows>>

Next == \/ ParseUrl
        \/ FetchTransportError
        \/ FetchOutlineDownload
        \/ FetchOutlineExport
        \/ DryRunReturn
        \/ EnterDownloadLoop
        \/ DownloadLesson
        \/ FinishDownload
        \/ EnterExportLoop
        \/ ExportLesson
        \/ WriteManifest

Spec == Init /\ [][Next]_vars

-----------------------------------------------------------------------------
(* The outline functions on every API response of the bounded domain *)

InitOutline == /\ Args
               /\ dryRun = FALSE
               /\ verify = FALSE
               /\ pc = "parsed"
               /\ url = CanonicalUrl
               /\ slug = <<"c1">>
               /\ resp \in Responses
               /\ Fresh

OutlineFetchDownload == DoFetchDownload(resp)
OutlineFetchExport == DoFetchExport(resp)

NextOutline == OutlineFetchDownload \/ OutlineFetchExport

SpecOutline == InitOutline /\ [][NextOutline]_vars

-----------------------------------------------------------------------------
(* The entry of both commands on every input URL of the bounded domain, up to *)
(* the answer of the metadata API                                              *)

InitParse == /\ Args
             /\ dryRun = FALSE
             /\ verify = FALSE
             /\ pc = "start"
             /\ url \in Urls
             /\ slug = NoSlug
             /\ resp = NoResp
             /\ Fresh

\* an answer of the API with one video lesson
SampleResponse ==
    [lessons |-> [k \in Keys |-> IF k = <<"k", "1">>
                                 THEN [type |-> <<"v", "i", "d", "e", "o">>,
                                       index |-> [kind |-> "int", val |-> 1],
                                       name |-> <<"a">>, slug |-> <<>>]
                                 ELSE Null],
     listing |-> <<>>]

ParseFetchDownload == DoFetchDownload(SampleResponse)
ParseFetchExport == DoFetchExport(SampleResponse)

NextParse == ParseUrl \/ FetchTransportError \/ ParseFetchDownload \/ ParseFetchExport

SpecParse == InitParse /\ [][NextParse]_vars

-----------------------------------------------------------------------------
(* The two builders of a lesson's viewable URL on every raw record of a bounded *)
(* domain of names and slugs                                                    *)

NameChars == {"a", "A", "1", " ", "?"}
UrlNames == SeqsUpTo(NameChars, MaxNameLen)
UrlSlugs == {<<>>, <<"s">>}

\* video records with a strictly positive index
UrlRecords == [type : {<<"v", "i", "d", "e", "o">>},
               index : {[kind |-> "int", val |-> v] : v \in 1..MaxIndex},
               name : UrlNames, slug : UrlSlugs]

\* API answers whose mapping holds one such record, under either key
UrlResponses ==
    {[lessons |-> [k \in Keys |-> IF k = key THEN obj ELSE Null], listing |-> <<>>] :
        key \in Keys, obj \in UrlRecords}

InitUrl == /\ Args
           /\ dryRun = FALSE
           /\ verify = FALSE
           /\ pc = "parsed"
           /\ url = CanonicalUrl
           /\ slug = <<"c1">>
           /\ resp \in UrlResponses
           /\ Fresh

\* the record of the answer goes through add_lesson with its key, as in the outline
\* fetcher, and through build_lesson_url, as in the export loop
BuildLessonUrls ==
    /\ viewUrls = NoViewUrls
    /\ LET kv == items(fetch_course_data(resp).lessons_map)[1]
           lessons == add_lesson(slug, kv.key, kv.obj, <<>>)
       IN  viewUrls' = [key |-> kv.key, obj |-> kv.obj,
                        inline |-> lessons[1].url,
                        export |-> build_lesson_url(slug, kv.obj).url]
    /\ UNCHANGED <<impl, cmd, dryRun, verify, url, resp, pc, at, slug, requested, posVideo,
                   outline, records, err, exitCode, loopVars, exportVars>>

NextUrl == BuildLessonUrls

SpecUrl == InitUrl /\ [][NextUrl]_vars

-----------------------------------------------------------------------------
(* Properties *)

\* the outcomes that are not "the tool exited with code 0"
NotExitZero(os) == {j \in 1..Len(os) : ~(os[j].kind = "exit" /\ os[j].code = 0)}

\* a download run that entered its loop and ended without an interrupt
DownloadLoopEnded ==
    cmd = "download" /\ pc = "exit" /\ at = "loop" /\ ~(\E j \in 1..Len(outcomes) : outcomes[j].kind = "interrupt")

\* C1: in a download run without an interrupt the failure counter is, at every
\* moment of the loop, the number of lessons tried so far whose outcome was not
\* exit code 0 (a non-zero code or an exception of the invocation); when the run
\* ends every lesson has an outcome, and the exit status is non-zero exactly when
\* that number is greater than 0.
C1_FailureCount ==
    /\ (cmd = "download" /\ pc = "loop") => failures = Cardinality(NotExitZero(outcomes))
    /\ DownloadLoopEnded =>
         /\ Len(outcomes) = Len(outline)
         /\ failures = Cardinality(NotExitZero(outcomes))
         /\ (exitCode # 0) <=> (Cardinality(NotExitZero(outcomes)) > 0)

\* a finished run with a lesson that succeeded and one whose invocation raised
C1_Witness ==
    /\ DownloadLoopEnded
    /\ \E j \in 1..Len(outcomes) : outcomes[j].kind = "raise"
    /\ \E j \in 1..Len(outcomes) : outcomes[j].kind = "exit" /\ outcomes[j].code = 0
    /\ failures = 1
    /\ exitCode = 1

\* C2: absent an interrupt the tool is invoked once for every lesson of the
\* outline, in outline order, whatever the earlier outcomes were: the lessons
\* invoked so far are always a prefix of the outline, the loop is left only by an
\* interrupt or after the last lesson, and a run that ends has invoked them all.
C2_EveryLessonInvoked ==
    (cmd = "download" /\ at \in {"none", "loop"}
        /\ ~(\E j \in 1..Len(outcomes) : outcomes[j].kind = "interrupt")) =>
      /\ Len(invoked) <= Len(outline)
      /\ invoked = SubSeq(outline, 1, Len(invoked))
      /\ Len(outcomes) = Len(invoked)
      /\ pc = "exit" => invoked = outline

\* a finished run of two lessons or more whose first invocation failed
C2_Witness ==
    /\ DownloadLoopEnded
    /\ Len(outline) >= 2
    /\ invoked = outline
    /\ outcomes[1].kind = "raise"
    /\ outcomes[2].kind = "exit" /\ outcomes[2].code # 0

\* C3: an interrupt during the invocation of lesson k ends the run at once: it is
\* the last outcome, the run has exited, lessons 1..k and no other have been
\* invoked, and the failure counter counts the failures among lessons 1..k-1 only.
C3_InterruptAborts ==
    \A k \in 1..Len(outcomes) :
        outcomes[k].kind = "interrupt" =>
          /\ k = Len(outcomes)
          /\ pc = "exit"
          /\ interrupted
          /\ invoked = SubSeq(outline, 1, k)
          /\ failures = Cardinality(NotExitZero(SubSeq(outcomes, 1, k - 1)))

\* an interrupt before the last lesson of the outline, every lesson before it
\* having failed
C3_Witness ==
    /\ interrupted
    /\ pc = "exit"
    /\ Len(invoked) < Len(outline)
    /\ outcomes[Len(outcomes)].kind = "interrupt"
    /\ failures = Len(invoked) - 1

\* the outline fetcher has returned an outline to the download command
OutlineReturned == cmd = "download" /\ pc = "fetched"

\* the Lessons add_lesson builds along the walk of the response (the listing's keys
\* or, without a listing, the mapping by index), before the post-filter and the sort
Walked == add_all(slug, candidates(fetch_course_data(resp)), <<>>)

IndexValues == (0 - 1)..(MaxIndex + 1)

\* C4, as stated: with a non-empty ordering hint the outline is in the order of the
\* listing's keys restricted to video records (the listing wins over the index
\* values); with an empty listing it is in ascending index order.
C4_ListingOrderAuthoritative ==
    OutlineReturned =>
      IF fetch_course_data(resp).ordered_keys # <<>>
      THEN outline = SelectSeq(Walked, LAMBDA l : l.index > 0)
      ELSE \A j, k \in 1..Len(outline) : j < k => outline[j].index <= outline[k].index

\* C4, amended: every outline returned is in ascending index order, with or
\* without a listing.  The listing decides which records are included (the video
\* records its keys name, once per occurrence, with index > 0) and the order of
\* Lessons of equal index among themselves; it does not override the index order.
C4_OutlineSortedByIndex ==
    OutlineReturned =>
      /\ \A j, k \in 1..Len(outline) : j < k => outline[j].index <= outline[k].index
      /\ \A v \in IndexValues :
           SelectSeq(outline, LAMBDA l : l.index = v)
             = IF v > 0 THEN SelectSeq(Walked, LAMBDA l : l.index = v) ELSE <<>>

\* an outline from a listing whose key order disagrees with the index values
C4_Witness ==
    /\ OutlineReturned
    /\ fetch_course_data(resp).ordered_keys # <<>>
    /\ Len(outline) >= 2
    /\ outline # SelectSeq(Walked, LAMBDA l : l.index > 0)

\* C8: no Lesson of an outline returned to the download loop has an index <= 0,
\* through the listing or through the index-sorted fallback.
C8_NoNonPositiveIndex ==
    OutlineReturned => \A j \in 1..Len(outline) : outline[j].index > 0

\* an outline returned although the listing named a video record of index <= 0
C8_Witness ==
    /\ OutlineReturned
    /\ fetch_course_data(resp).ordered_keys # <<>>
    /\ \E j \in 1..Len(Walked) : Walked[j].index <= 0
    /\ outline # <<>>

\* the same through the fallback: no listing, a video record of index <= 0 in the mapping
C8_WitnessFallback ==
    /\ OutlineReturned
    /\ fetch_course_data(resp).ordered_keys = <<>>
    /\ \E j \in 1..Len(Walked) : Walked[j].index <= 0
    /\ outline # <<>>

\* the positions of the export loop whose media resolution succeeded
ResolvedPositions == SelectSeq([j \in 1..Len(resolved) |-> j], LAMBDA j : resolved[j])

\* the title "{index:02d} - {name}" of a raw record
TitleOf(obj) ==
    RowTitle(ParseIndex(obj.index),
             IF obj.name # <<>> THEN obj.name ELSE DefaultName(ParseIndex(obj.index)))

\* an export run that ended after its lesson loop, its manifest written
ExportLoopEnded == cmd = "export" /\ pc = "exit" /\ at = "xloop" /\ err = "none"

\* the records handed to the export loop all carry a strictly positive index
WellFormedRecords == \A j \in 1..Len(records) : records[j].index.kind = "int" /\ records[j].index.val > 0

\* C5: whatever the set of lessons whose media resolution fails, every lesson is
\* processed and the manifest holds exactly one row for each lesson that resolved
\* and none for the others, in ascending index order, titled "{index:02d} - {name}".
\* Stated for the runs whose records all carry a strictly positive index.
C5_ExportRowsForResolved ==
    (ExportLoopEnded /\ WellFormedRecords) =>
      /\ processed = Len(records)
      /\ Len(resolved) = Len(records)
      /\ \A j, k \in 1..Len(records) :
           j < k => ParseIndex(records[j].index) <= ParseIndex(records[k].index)
      /\ [j \in 1..Len(manifest.lines) |-> manifest.lines[j].title]
           = [n \in 1..Len(ResolvedPositions) |-> TitleOf(records[ResolvedPositions[n]])]

\* C6: with verification requested, every lesson whose direct URL was resolved has
\* its row, whatever the HEAD request did.  Stated for the runs whose records all
\* carry a strictly positive index.
C6_VerifyKeepsRow ==
    (cmd = "export" /\ verify /\ WellFormedRecords) =>
      /\ Len(rows) = Len(ResolvedPositions)
      /\ ExportLoopEnded => Len(manifest.lines) = Len(ResolvedPositions)

\* C7: every export run that got past the outline fetch has written a manifest
\* whose first line is the header url,title,path.
C7_HeaderAlwaysWritten ==
    (cmd = "export" /\ pc = "exit" /\ at \in {"fetched", "xloop"}) =>
      manifest.header = <<"url", "title", "path">>

\* C10: when the API response holds no video record with a strictly positive index,
\* the command (download or export) ends in a failure state at the outline fetch,
\* with no tool invocation, no lesson processed and no manifest written.
C10_EmptyOutlineFails ==
    posVideo = "no" =>
      /\ pc = "exit"
      /\ at = "parsed"
      /\ exitCode # 0
      /\ invoked = <<>>
      /\ processed = 0
      /\ manifest = NoFile

\* C9: on both commands, an input whose host is the platform host and whose first
\* two non-empty path segments are courses/<slug> yields that slug; any other input
\* makes the command fail at the parse, before any network request.
C9_UrlParserContract ==
    pc # "start" =>
      LET parts == SelectSeq(Split(url.path, <<>>), LAMBDA seg : seg # <<>>)
          valid == /\ url.netloc = "learn.deeplearning.ai"
                   /\ Len(parts) >= 2
                   /\ parts[1] = <<"courses">>
      IN  IF valid THEN at # "start" /\ slug = parts[2]
          ELSE pc = "exit" /\ at = "start" /\ exitCode # 0 /\ ~requested

\* an export run that ended, wherever it ended
ExportEnded == cmd = "export" /\ pc = "exit"

\* C11: an export run that reached the end of its lesson loop and wrote its manifest
\* without an I/O error exits with status 0 whatever the number of lessons that
\* failed to resolve; a non-zero exit of the export command comes either from an
\* error raised before the manifest write starts (no file is written then) or from
\* an I/O error of the manifest write itself.
C11_ExportExitStatus ==
    ExportEnded =>
      /\ (at = "xloop" /\ err = "none") => (exitCode = 0 /\ manifest = WriteCsv(rows))
      /\ exitCode # 0 =>
           \/ at \in {"start", "parsed", "fetched"} /\ manifest = NoFile
           \/ at = "xloop" /\ err = "IOError"

\* C11, as stated: every export run that reached the end of its lesson loop exits
\* with status 0, and a non-zero exit only comes from an error raised before the
\* manifest write starts.
C11_ExportExitsZeroAfterLoop ==
    ExportEnded =>
      /\ at = "xloop" => exitCode = 0
      /\ exitCode # 0 => at \in {"start", "parsed", "fetched"}

\* a finished export run none of whose lessons resolved: status 0, header-only manifest
C11_Witness ==
    /\ ExportEnded
    /\ at = "xloop"
    /\ Len(records) = 2
    /\ resolved = <<FALSE, FALSE>>
    /\ exitCode = 0
    /\ manifest = WriteCsv(<<>>)

\* the exit status of the download runs that completed their loop with at least
\* one failed lesson: if failures: sys.exit(1), in both implementations
FailedRunExit == 1

\* C12: a download run ended by a user interrupt terminates with an exit status
\* different from the status of the runs that completed their loop with at least
\* one failed lesson.
C12_InterruptExitDistinct ==
    /\ (DownloadLoopEnded /\ failures > 0) => exitCode = FailedRunExit
    /\ (cmd = "download" /\ pc = "exit" /\ interrupted) => exitCode # FailedRunExit

\* C13: in every outline the outline fetcher returns, no two Lessons have the same
\* index, whatever the API response was (a listing naming a key twice, two video
\* records with equal index).
C13_IndexUnique ==
    OutlineReturned =>
      \A j, k \in 1..Len(outline) : j # k => outline[j].index # outline[k].index

\* a raw record with its index field read as the claim says it is read: the
\* value 0 in place of a text that is no integer
ZeroForUnparseable(obj) ==
    IF obj # Null /\ obj.index.kind = "bad"
    THEN [obj EXCEPT !.index = [kind |-> "int", val |-> 0]]
    ELSE obj

\* the API response r, every unparseable index replaced by 0
Defaulted(r) == [r EXCEPT !.lessons = [k \in Keys |-> ZeroForUnparseable(r.lessons[k])]]

\* C14: an index field that is missing, null, empty or not parseable as an integer
\* is read as 0: the outline fetch never fails on it with the ValueError of int(),
\* the download command gets what it would get had the response carried 0 in its
\* place, and the export command gets the same records.
C14_UnparseableIndexIsZero ==
    (pc # "parsed") =>
      /\ err # "ValueError"
      /\ cmd = "download" =>
           LET res == fetch_course_outline_via_api(slug, Defaulted(resp))
           IN  IF res.err = "none" THEN pc = "fetched" /\ outline = res.lessons
               ELSE pc = "exit" /\ err = res.err
      /\ cmd = "export" =>
           /\ pc = "fetched"
           /\ [j \in 1..Len(records) |-> ZeroForUnparseable(records[j])]
                = get_outline_for_csv(Defaulted(resp)).lessons

\* a name made of lower-case letters, digits and single inner spaces
NiceName(name) ==
    /\ name # <<>>
    /\ \A j \in 1..Len(name) : name[j] \in LowerLetters \cup Digits \cup {" "}
    /\ name[1] # " " /\ name[Len(name)] # " "
    /\ \A j \in 1..(Len(name) - 1) : ~(name[j] = " " /\ name[j + 1] = " ")

\* C15: for the same course slug and the same raw record the export builder and the
\* outline fetcher's inline builder choose the same lesson path segment, the
\* record's own slug when present and otherwise the record's mapping key; for a
\* name of lower-case letters, digits and single inner spaces both return the same
\* viewable URL.
C15_BuildersAgree ==
    viewUrls # NoViewUrls =>
      LET obj == viewUrls.obj
          segment == IF obj.slug # <<>> THEN obj.slug ELSE viewUrls.key
      IN  /\ viewUrls.inline.lesson = segment
          /\ viewUrls.export.lesson = segment
          /\ NiceName(obj.name) => viewUrls.inline = viewUrls.export

\* a title that starts with "00 - " or with the sign of a negative index
NonPositiveTitle(title) ==
    \/ Len(title) >= 5 /\ SubSeq(title, 1, 5) = <<"0", "0", " ", "-", " ">>
    \/ Len(title) >= 1 /\ title[1] = "-"

\* C16: the record list handed to the export loop holds no video record whose
\* index is <= 0, so no row, collected or written to the manifest, has a title
\* that starts with "00 - " or with a negative index.
C16_ExportOnlyPositiveIndex ==
    (cmd = "export" /\ (pc = "xloop" \/ at = "xloop")) =>
      /\ \A j \in 1..Len(records) : ParseIndex(records[j].index) > 0
      /\ \A j \in 1..Len(rows) : ~NonPositiveTitle(rows[j].title)
      /\ \A j \in 1..Len(manifest.lines) : ~NonPositiveTitle(manifest.lines[j].title)

====
